---- MODULE Spec2Model ----
(***************************************************************************)
(* Model of mishell (src/main.cpp): the read loop of main, the tokenizer,  *)
(* the redirection resolver, the single-stage and two-stage launchers and  *)
(* the children they create, with per-process descriptor tables and the    *)
(* kernel's pipe and wait semantics.                                       *)
(***************************************************************************)
EXTENDS Integers, Sequences, FiniteSets, TLC

(* ------------------------------ bounds -------------------------------- *)
\* lines read by the loop in one run
MaxLines == 2
\* highest descriptor number of a process's descriptor table
MaxFd == 6
\* most bytes the program of a first stage writes
MaxWrites == 2
\* tokens of the enumerated one-command lines
MaxToks == 3
\* bytes a pipe buffers before a write blocks
PipeCap == 1

(* --------------------------- program constants ------------------------ *)
STDIN_FILENO == 0
STDOUT_FILENO == 1
EXIT_FAILURE == 1

(* ------------------------------ tokens -------------------------------- *)
\* strings are sequences of one-character strings
TokExit == <<"e", "x", "i", "t">>
TokCd == <<"c", "d">>
TokLt == <<"<">>
TokGt == <<">">>
TokBar == <<"|">>

IsSpace(c) == c \in {" ", "\t"}

\* words joined by single blanks (only used to write the input lines down)
RECURSIVE Join(_)
Join(ws) ==
    IF ws = <<>> THEN <<>>
    ELSE IF Len(ws) = 1 THEN ws[1]
    ELSE ws[1] \o <<" ">> \o Join(Tail(ws))

\* the lines the line source can supply
Lines ==
    { <<>>,
      <<" ">>,
      TokExit,
      TokCd,
      Join(<<TokCd, <<"d">>>>),
      <<" ", "a", "\t", " ">>,
      Join(<<<<"a">>, TokLt, <<"f">>, TokGt, <<"g">>>>),
      Join(<<<<"a">>, TokLt, <<"f">>, TokLt, <<"h">>>>),
      Join(<<<<"a">>, <<"x">>, TokGt>>),
      Join(<<<<"a">>, TokBar, <<"b">>>>),
      Join(<<<<"a">>, TokBar, <<"b">>, TokGt, <<"g">>>>),
      Join(<<TokBar, <<"b">>, TokBar, <<"c">>>>),
      Join(<<TokCd, TokBar, <<"b">>>>) }

\* std::istringstream >> token, until extraction fails
RECURSIVE ParseFrom(_, _, _, _)
ParseFrom(s, i, cur, toks) ==
    IF i > Len(s)
    THEN IF cur = <<>> THEN toks ELSE Append(toks, cur)
    ELSE IF IsSpace(s[i])
         THEN ParseFrom(s, i + 1, <<>>,
                        IF cur = <<>> THEN toks ELSE Append(toks, cur))
         ELSE ParseFrom(s, i + 1, Append(cur, s[i]), toks)

parseCommand(s) == ParseFrom(s, 1, <<>>, <<>>)

\* hasPipe: some token equals "|"
hasPipe(a) == \E i \in 1..Len(a) : a[i] = TokBar

(* ------------------------- descriptor tables -------------------------- *)
FdNums == 0..MaxFd
NoFile == [kind |-> "none", id |-> 0]
Tty == [kind |-> "tty", id |-> 0]
\* a file opened for the token at position pos of the command's token list
RFile(pos) == [kind |-> "rfile", id |-> pos]
WFile(pos) == [kind |-> "wfile", id |-> pos]
PipeR(k) == [kind |-> "pr", id |-> k]
PipeW(k) == [kind |-> "pw", id |-> k]

\* the table main starts with: the three standard streams
Baseline == [n \in FdNums |-> IF n <= 2 THEN Tty ELSE NoFile]
ClosedAll == [n \in FdNums |-> NoFile]

OpenSet(t) == {n \in FdNums : t[n].kind # "none"}

\* lowest free descriptor number, -1 when the table is full
LowestFree(t) ==
    IF \E n \in FdNums : t[n].kind = "none"
    THEN CHOOSE n \in FdNums :
            /\ t[n].kind = "none"
            /\ \A m \in FdNums : t[m].kind = "none" => n <= m
    ELSE -1

\* close(fd)
Close(t, fd) == IF fd \in FdNums THEN [t EXCEPT ![fd] = NoFile] ELSE t

\* dup2(old, new)
Dup2(t, old, new) ==
    IF old \in FdNums /\ t[old].kind # "none"
    THEN [t EXCEPT ![new] = t[old]]
    ELSE t

(* ------------------- mutated resolver and vector ---------------------- *)
\* ResolveFrom going on with the next token after a failed open
RECURSIVE ResolveFromNoHalt(_, _, _, _, _, _, _)
ResolveFromNoHalt(a, i, inF, outF, t, log, oc) ==
    IF i > Len(a)
    THEN [ok |-> TRUE, inFile |-> inF, outFile |-> outF, fds |-> t, log |-> log]
    ELSE IF a[i] = TokLt /\ i + 1 <= Len(a)
    THEN LET fd == IF oc[i] THEN LowestFree(t) ELSE -1
             lg == Append(log, [pos |-> i + 1, mode |-> "r", fd |-> fd])
         IN  ResolveFromNoHalt(a, i + 1, fd, outF,
                               IF fd < 0 THEN t ELSE [t EXCEPT ![fd] = RFile(i + 1)],
                               lg, oc)
    ELSE IF a[i] = TokGt /\ i + 1 <= Len(a)
    THEN LET fd == IF oc[i] THEN LowestFree(t) ELSE -1
             lg == Append(log, [pos |-> i + 1, mode |-> "w", fd |-> fd])
         IN  ResolveFromNoHalt(a, i + 1, inF, fd,
                               IF fd < 0 THEN t ELSE [t EXCEPT ![fd] = WFile(i + 1)],
                               lg, oc)
    ELSE ResolveFromNoHalt(a, i + 1, inF, outF, t, log, oc)

\* ResolveFrom keeping the first descriptor of each kind
RECURSIVE ResolveFromFirstWins(_, _, _, _, _, _, _)
ResolveFromFirstWins(a, i, inF, outF, t, log, oc) ==
    IF i > Len(a)
    THEN [ok |-> TRUE, inFile |-> inF, outFile |-> outF, fds |-> t, log |-> log]
    ELSE IF a[i] = TokLt /\ i + 1 <= Len(a)
    THEN LET fd == IF oc[i] THEN LowestFree(t) ELSE -1
             lg == Append(log, [pos |-> i + 1, mode |-> "r", fd |-> fd])
         IN  IF fd < 0
             THEN [ok |-> FALSE, inFile |-> fd, outFile |-> outF,
                   fds |-> t, log |-> lg]
             ELSE ResolveFromFirstWins(a, i + 1, IF inF = -1 THEN fd ELSE inF, outF,
                                       [t EXCEPT ![fd] = RFile(i + 1)], lg, oc)
    ELSE IF a[i] = TokGt /\ i + 1 <= Len(a)
    THEN LET fd == IF oc[i] THEN LowestFree(t) ELSE -1
             lg == Append(log, [pos |-> i + 1, mode |-> "w", fd |-> fd])
         IN  IF fd < 0
             THEN [ok |-> FALSE, inFile |-> inF, outFile |-> fd,
                   fds |-> t, log |-> lg]
             ELSE ResolveFromFirstWins(a, i + 1, inF, IF outF = -1 THEN fd ELSE outF,
                                       [t EXCEPT ![fd] = WFile(i + 1)], lg, oc)
    ELSE ResolveFromFirstWins(a, i + 1, inF, outF, t, log, oc)

(* ------------------------ redirection resolver ------------------------ *)
\* isRedirection, from token i on.  oc[i] tells whether the file system lets
\* the open issued for the operator at position i succeed; an open also
\* fails when the table has no free slot.  log lists the opens issued.
RECURSIVE ResolveFrom(_, _, _, _, _, _, _)
ResolveFrom(a, i, inF, outF, t, log, oc) ==
    IF i > Len(a)
    THEN [ok |-> TRUE, inFile |-> inF, outFile |-> outF, fds |-> t, log |-> log]
    ELSE IF a[i] = TokLt /\ i + 1 <= Len(a)
    THEN LET fd == IF oc[i] THEN LowestFree(t) ELSE -1
             lg == Append(log, [pos |-> i + 1, mode |-> "r", fd |-> fd])
         IN  IF fd < 0
             THEN [ok |-> FALSE, inFile |-> fd, outFile |-> outF,
                   fds |-> t, log |-> lg]
             ELSE ResolveFrom(a, i + 1, fd, outF,
                              [t EXCEPT ![fd] = RFile(i + 1)], lg, oc)
    ELSE IF a[i] = TokGt /\ i + 1 <= Len(a)
    THEN LET fd == IF oc[i] THEN LowestFree(t) ELSE -1
             lg == Append(log, [pos |-> i + 1, mode |-> "w", fd |-> fd])
         IN  IF fd < 0
             THEN [ok |-> FALSE, inFile |-> inF, outFile |-> fd,
                   fds |-> t, log |-> lg]
             ELSE ResolveFrom(a, i + 1, inF, fd,
                              [t EXCEPT ![fd] = WFile(i + 1)], lg, oc)
    ELSE ResolveFrom(a, i + 1, inF, outF, t, log, oc)

isRedirection(a, t, oc) == ResolveFrom(a, 1, -1, -1, t, <<>>, oc)

(* -------------------------- pipeline splitter ------------------------- *)
\* the loop of executePipedCommands that fills cmd1 and cmd2
RECURSIVE SplitFrom(_, _, _, _, _)
SplitFrom(a, i, found, c1, c2) ==
    IF i > Len(a) THEN [cmd1 |-> c1, cmd2 |-> c2]
    ELSE IF a[i] = TokBar THEN SplitFrom(a, i + 1, TRUE, c1, c2)
    ELSE IF found THEN SplitFrom(a, i + 1, found, c1, Append(c2, a[i]))
    ELSE SplitFrom(a, i + 1, found, Append(c1, a[i]), c2)

SplitPipe(a) == SplitFrom(a, 1, FALSE, <<>>, <<>>)

\* the argument vector the single-stage child builds (without the nullptr)
RECURSIVE ArgvFrom(_, _)
ArgvFrom(a, i) ==
    IF i > Len(a) \/ a[i] = TokLt \/ a[i] = TokGt THEN <<>>
    ELSE <<a[i]>> \o ArgvFrom(a, i + 1)

SingleArgv(a) == ArgvFrom(a, 1)

(* ------------------------------- state -------------------------------- *)
VARIABLES
    pc,        \* where the parent is: prompt, dispatch, resolve, fork, close,
               \* wait, pipe, fork1, fork2, pclose, wait1, wait2, done, crashed
    cin,       \* state of std::cin: good, eof (eofbit), fail (eofbit|failbit)
    input,     \* main's input string
    args,      \* main's token list
    cwd,       \* the parent's working directory
    pfds,      \* the parent's descriptor table
    inFile,    \* executeCommand's locals
    outFile,
    pid,
    cmd1,      \* executePipedCommands' locals
    cmd2,
    pipefd,
    pid1,
    pid2,
    procs,     \* the parent's children that were not reaped: pid -> record
    pipes,     \* pipe id -> buffered bytes
    nread,     \* lines requested so far
    \* what the command in progress has done so far (cleared at each prompt)
    route,     \* the paths main entered
    resolves,  \* calls of isRedirection
    opened,    \* opens issued
    created,   \* pids of the children created
    forkFail,  \* a fork failed
    waits,     \* wait/waitpid calls issued
    ub,        \* args[0] was read of an empty token list
    aOut,      \* bytes child A wrote to its standard output
    bIn,       \* bytes child B read from its standard input
    bEof,      \* child B's read returned end-of-stream
    chan,      \* id of the pipe the command created, 0 when none
    noImage    \* children created whose execvp did not replace the image

locals == <<inFile, outFile, pid, cmd1, cmd2, pipefd, pid1, pid2>>
hist == <<route, resolves, opened, created, forkFail, waits, ub, aOut, bIn, bEof, chan, noImage>>
vars == <<pc, cin, input, args, cwd, pfds, locals, procs, pipes, nread, hist>>

PipeIds == 1..MaxLines
NoPid == 0
RootDir == <<"/">>

Init ==
    /\ pc = "prompt"
    /\ cin = "good"
    /\ input = <<>>
    /\ args = <<>>
    /\ cwd = RootDir
    /\ pfds = Baseline
    /\ inFile = -1 /\ outFile = -1 /\ pid = NoPid
    /\ cmd1 = <<>> /\ cmd2 = <<>> /\ pipefd = <<-1, -1>>
    /\ pid1 = NoPid /\ pid2 = NoPid
    /\ procs = <<>>
    /\ pipes = [k \in PipeIds |-> <<>>]
    /\ nread = 0
    /\ route = {} /\ resolves = 0 /\ opened = <<>> /\ created = {}
    /\ forkFail = FALSE /\ waits = 0 /\ ub = FALSE
    /\ aOut = <<>> /\ bIn = <<>> /\ bEof = FALSE /\ chan = 0 /\ noImage = {}

(* ------------------------------ main loop ----------------------------- *)
\* showPrompt and std::getline.  A read on a stream that is no longer good
\* extracts nothing and leaves input as it was.
ReadLine ==
    /\ pc = "prompt"
    /\ nread < MaxLines
    /\ nread' = nread + 1
    /\ \/ /\ cin = "good"
          /\ \/ \E l \in Lines : input' = l /\ cin' = "good"
             \/ \E l \in Lines \ {<<>>} : input' = l /\ cin' = "eof"
             \/ input' = <<>> /\ cin' = "fail"
       \/ /\ cin # "good"
          /\ input' = input
          /\ cin' = "fail"
    /\ pc' = "dispatch"
    /\ inFile' = -1 /\ outFile' = -1 /\ pid' = NoPid
    /\ cmd1' = <<>> /\ cmd2' = <<>> /\ pipefd' = <<-1, -1>>
    /\ pid1' = NoPid /\ pid2' = NoPid
    /\ route' = {} /\ resolves' = 0 /\ opened' = <<>> /\ created' = {}
    /\ forkFail' = FALSE /\ waits' = 0 /\ ub' = FALSE
    /\ aOut' = <<>> /\ bIn' = <<>> /\ bEof' = FALSE /\ chan' = 0 /\ noImage' = {}
    /\ UNCHANGED <<args, cwd, pfds, procs, pipes>>

\* if (input.empty()) continue;
SkipEmpty ==
    /\ pc = "dispatch"
    /\ input = <<>>
    /\ pc' = "prompt"
    /\ UNCHANGED <<cin, input, args, cwd, pfds, locals, procs, pipes, nread, hist>>

\* changeDirectory going to the root directory when the operand is missing
changeDirectoryToRoot(a, ok) ==
    IF Len(a) < 2 THEN RootDir
    ELSE IF ok THEN a[2] ELSE cwd

\* changeDirectory
changeDirectory(a, ok) ==
    IF Len(a) < 2 THEN cwd
    ELSE IF ok THEN a[2] ELSE cwd

\* Route with the pipe test moved in front of the cd test
RoutePipeBeforeCd(a) ==
    IF a[1] = TokExit THEN "exit"
    ELSE IF hasPipe(a) THEN "piped"
    ELSE IF a[1] = TokCd THEN "cd"
    ELSE "single"

\* the path main takes for a token list that is not empty
Route(a) ==
    IF a[1] = TokExit THEN "exit"
    ELSE IF a[1] = TokCd THEN "cd"
    ELSE IF hasPipe(a) THEN "piped"
    ELSE "single"

\* if (args[0] == "exit") break;
DispatchExit ==
    /\ pc = "dispatch"
    /\ input # <<>>
    /\ LET a == parseCommand(input) IN
        /\ a # <<>>
        /\ Route(a) = "exit"
        /\ args' = a
    /\ pc' = "done"
    /\ route' = route \cup {"builtin"}
    /\ UNCHANGED <<cin, input, cwd, pfds, locals, procs, pipes, nread,
                   resolves, opened, created, forkFail, waits, ub, aOut, bIn, bEof, chan, noImage>>

\* changeDirectory(args)
DispatchCd ==
    /\ pc = "dispatch"
    /\ input # <<>>
    /\ LET a == parseCommand(input) IN
        /\ a # <<>>
        /\ Route(a) = "cd"
        /\ args' = a
        /\ \E ok \in BOOLEAN : cwd' = changeDirectory(a, ok)
    /\ pc' = "prompt"
    /\ route' = route \cup {"builtin"}
    /\ UNCHANGED <<cin, input, pfds, locals, procs, pipes, nread,
                   resolves, opened, created, forkFail, waits, ub, aOut, bIn, bEof, chan, noImage>>

\* executePipedCommands up to the call of pipe()
DispatchPipe ==
    /\ pc = "dispatch"
    /\ input # <<>>
    /\ LET a == parseCommand(input) IN
        /\ a # <<>>
        /\ Route(a) = "piped"
        /\ args' = a
        /\ cmd1' = SplitPipe(a).cmd1
        /\ cmd2' = SplitPipe(a).cmd2
    /\ pc' = "pipe"
    /\ route' = route \cup {"piped"}
    /\ UNCHANGED <<cin, input, cwd, pfds, inFile, outFile, pid, pipefd, pid1, pid2,
                   procs, pipes, nread,
                   resolves, opened, created, forkFail, waits, ub, aOut, bIn, bEof, chan, noImage>>

\* executeCommand is entered
DispatchPlain ==
    /\ pc = "dispatch"
    /\ input # <<>>
    /\ LET a == parseCommand(input) IN
        /\ a # <<>>
        /\ Route(a) = "single"
        /\ args' = a
    /\ pc' = "resolve"
    /\ route' = route \cup {"single"}
    /\ UNCHANGED <<cin, input, cwd, pfds, locals, procs, pipes, nread,
                   resolves, opened, created, forkFail, waits, ub, aOut, bIn, bEof, chan, noImage>>

\* args[0] of an empty vector: the read is out of bounds.  The build either
\* faults, or compares whatever the read yields: equal to "exit", equal to
\* "cd", or neither (hasPipe of an empty list is false).
DispatchEmptyArgs ==
    /\ pc = "dispatch"
    /\ input # <<>>
    /\ parseCommand(input) = <<>>
    /\ args' = <<>>
    /\ ub' = TRUE
    /\ \/ pc' = "crashed" /\ route' = route
       \/ pc' = "done" /\ route' = route \cup {"builtin"}
       \/ pc' = "prompt" /\ route' = route \cup {"builtin"}
       \/ pc' = "resolve" /\ route' = route \cup {"single"}
    /\ UNCHANGED <<cin, input, cwd, pfds, locals, procs, pipes, nread,
                   resolves, opened, created, forkFail, waits, aOut, bIn, bEof, chan, noImage>>

(* --------------------------- processes -------------------------------- *)
Pids == DOMAIN procs

\* fork() returns the lowest process id that is not in use
NewPid == CHOOSE n \in 1..(Cardinality(Pids) + 1) : n \notin Pids

\* the child fork() creates: a copy of the parent's table and locals
NewChild(kind, a) ==
    [kind |-> kind, pc |-> "forked", fds |-> pfds, args |-> a,
     inF |-> inFile, outF |-> outFile, p0 |-> pipefd[1], p1 |-> pipefd[2],
     argv |-> <<>>, left |-> 0, xfail |-> FALSE, how |-> "alive", status |-> 0]

Without(p) == [q \in Pids \ {p} |-> procs[q]]

\* a terminated process holds no descriptor.  how: "exit" with exit status
\* st, or "signal" (killed; st is 0)
Exited(rec, how, st) ==
    [rec EXCEPT !.pc = "zombie", !.fds = ClosedAll, !.left = 0,
                !.how = how, !.status = st]

\* every descriptor table there is
Tables == {pfds} \cup {procs[q].fds : q \in Pids}
HasReader(k) == \E t \in Tables : \E n \in FdNums : t[n] = PipeR(k)
HasWriter(k) == \E t \in Tables : \E n \in FdNums : t[n] = PipeW(k)
PipeInUse(k) == HasReader(k) \/ HasWriter(k)

(* ----------------------- executeCommand (parent) ---------------------- *)
\* Resolve without the return on a failed resolution
ResolveNoReturn ==
    /\ pc = "resolve"
    /\ \E oc \in [1..Len(args) -> BOOLEAN] :
          LET r == isRedirection(args, pfds, oc) IN
            /\ pfds' = r.fds
            /\ inFile' = r.inFile
            /\ outFile' = r.outFile
            /\ opened' = opened \o r.log
            /\ pc' = "fork"
    /\ resolves' = resolves + 1
    /\ UNCHANGED <<cin, input, args, cwd, pid, cmd1, cmd2, pipefd, pid1, pid2,
                   procs, pipes, nread,
                   route, created, forkFail, waits, ub, aOut, bIn, bEof, chan, noImage>>

\* if (!isRedirection(args, inFile, outFile)) return;
Resolve ==
    /\ pc = "resolve"
    /\ \E oc \in [1..Len(args) -> BOOLEAN] :
          LET r == isRedirection(args, pfds, oc) IN
            /\ pfds' = r.fds
            /\ inFile' = r.inFile
            /\ outFile' = r.outFile
            /\ opened' = opened \o r.log
            /\ pc' = IF r.ok THEN "fork" ELSE "prompt"
    /\ resolves' = resolves + 1
    /\ UNCHANGED <<cin, input, args, cwd, pid, cmd1, cmd2, pipefd, pid1, pid2,
                   procs, pipes, nread,
                   route, created, forkFail, waits, ub, aOut, bIn, bEof, chan, noImage>>

\* pid = fork(), and the pid < 0 branch
ForkSingle ==
    /\ pc = "fork"
    /\ \/ /\ pid' = -1
          /\ forkFail' = TRUE
          /\ pc' = "prompt"
          /\ UNCHANGED <<procs, created>>
       \/ /\ pid' = NewPid
          /\ procs' = procs @@ (NewPid :> NewChild("single", args))
          /\ created' = created \cup {NewPid}
          /\ pc' = "close"
          /\ UNCHANGED forkFail
    /\ UNCHANGED <<cin, input, args, cwd, pfds, inFile, outFile,
                   cmd1, cmd2, pipefd, pid1, pid2, pipes, nread,
                   route, resolves, opened, waits, ub, aOut, bIn, bEof, chan, noImage>>

\* the parent branch up to the call of wait
ParentClose ==
    /\ pc = "close"
    /\ pfds' = Close(Close(pfds, inFile), outFile)
    /\ pc' = "wait"
    /\ waits' = waits + 1
    /\ UNCHANGED <<cin, input, args, cwd, locals, procs, pipes, nread,
                   route, resolves, opened, created, forkFail, ub, aOut, bIn, bEof, chan, noImage>>

\* wait(nullptr) returns: it collects any one terminated child (the caller
\* has at least the child it just created, so it never returns at once)
WaitAny ==
    /\ pc = "wait"
    /\ \E p \in Pids :
          /\ procs[p].pc = "zombie"
          /\ procs' = Without(p)
    /\ pc' = "prompt"
    /\ UNCHANGED <<cin, input, args, cwd, pfds, locals, pipes, nread, hist>>

(* -------------------- executePipedCommands (parent) ------------------- *)
FreePipeId == CHOOSE k \in PipeIds : ~PipeInUse(k) /\ \A j \in PipeIds : ~PipeInUse(j) => k <= j

\* CreatePipe without the return on a failed pipe()
CreatePipeNoReturn ==
    /\ pc = "pipe"
    /\ \/ /\ pc' = "fork1"
          /\ UNCHANGED <<pfds, pipefd, pipes, chan>>
       \/ LET r == LowestFree(pfds)
              w == LowestFree([pfds EXCEPT ![r] = Tty])
          IN  /\ r >= 0
              /\ w >= 0
              /\ \E k \in PipeIds : ~PipeInUse(k)
              /\ pfds' = [pfds EXCEPT ![r] = PipeR(FreePipeId), ![w] = PipeW(FreePipeId)]
              /\ pipes' = [pipes EXCEPT ![FreePipeId] = <<>>]
              /\ pipefd' = <<r, w>>
              /\ chan' = FreePipeId
              /\ pc' = "fork1"
    /\ UNCHANGED <<cin, input, args, cwd, inFile, outFile, pid, cmd1, cmd2,
                   pid1, pid2, procs, nread,
                   route, resolves, opened, created, forkFail, waits, ub, aOut, bIn, bEof,
                   noImage>>

\* pipe(pipefd), and the return when it fails
CreatePipe ==
    /\ pc = "pipe"
    /\ \/ /\ pc' = "prompt"
          /\ UNCHANGED <<pfds, pipefd, pipes, chan>>
       \/ LET r == LowestFree(pfds)
              w == LowestFree([pfds EXCEPT ![r] = Tty])
          IN  /\ r >= 0
              /\ w >= 0
              /\ \E k \in PipeIds : ~PipeInUse(k)
              /\ pfds' = [pfds EXCEPT ![r] = PipeR(FreePipeId), ![w] = PipeW(FreePipeId)]
              /\ pipes' = [pipes EXCEPT ![FreePipeId] = <<>>]
              /\ pipefd' = <<r, w>>
              /\ chan' = FreePipeId
              /\ pc' = "fork1"
    /\ UNCHANGED <<cin, input, args, cwd, inFile, outFile, pid, cmd1, cmd2,
                   pid1, pid2, procs, nread,
                   route, resolves, opened, created, forkFail, waits, ub, aOut, bIn, bEof,
                   noImage>>

\* pid1 = fork(), and the return when it fails
Fork1 ==
    /\ pc = "fork1"
    /\ \/ /\ pid1' = -1
          /\ forkFail' = TRUE
          /\ pc' = "prompt"
          /\ UNCHANGED <<procs, created>>
       \/ /\ pid1' = NewPid
          /\ procs' = procs @@ (NewPid :> NewChild("A", cmd1))
          /\ created' = created \cup {NewPid}
          /\ pc' = "fork2"
          /\ UNCHANGED forkFail
    /\ UNCHANGED <<cin, input, args, cwd, pfds, inFile, outFile, pid,
                   cmd1, cmd2, pipefd, pid2, pipes, nread,
                   route, resolves, opened, waits, ub, aOut, bIn, bEof, chan, noImage>>

\* pid2 = fork(), and the return when it fails
Fork2 ==
    /\ pc = "fork2"
    /\ \/ /\ pid2' = -1
          /\ forkFail' = TRUE
          /\ pc' = "prompt"
          /\ UNCHANGED <<procs, created>>
       \/ /\ pid2' = NewPid
          /\ procs' = procs @@ (NewPid :> NewChild("B", cmd2))
          /\ created' = created \cup {NewPid}
          /\ pc' = "pclose"
          /\ UNCHANGED forkFail
    /\ UNCHANGED <<cin, input, args, cwd, pfds, inFile, outFile, pid,
                   cmd1, cmd2, pipefd, pid1, pipes, nread,
                   route, resolves, opened, waits, ub, aOut, bIn, bEof, chan, noImage>>

\* PipeParentClose without close(pipefd[1])
PipeParentKeepsWriteEnd ==
    /\ pc = "pclose"
    /\ pfds' = Close(pfds, pipefd[1])
    /\ pc' = "wait1"
    /\ waits' = waits + 1
    /\ UNCHANGED <<cin, input, args, cwd, locals, procs, pipes, nread,
                   route, resolves, opened, created, forkFail, ub, aOut, bIn, bEof, chan, noImage>>

\* close(pipefd[0]); close(pipefd[1]); up to the call of waitpid(pid1)
PipeParentClose ==
    /\ pc = "pclose"
    /\ pfds' = Close(Close(pfds, pipefd[1]), pipefd[2])
    /\ pc' = "wait1"
    /\ waits' = waits + 1
    /\ UNCHANGED <<cin, input, args, cwd, locals, procs, pipes, nread,
                   route, resolves, opened, created, forkFail, ub, aOut, bIn, bEof, chan, noImage>>

\* waitpid(pid1, nullptr, 0) returns, up to the call of waitpid(pid2)
WaitPid1 ==
    /\ pc = "wait1"
    /\ pid1 \in Pids
    /\ procs[pid1].pc = "zombie"
    /\ procs' = Without(pid1)
    /\ pc' = "wait2"
    /\ waits' = waits + 1
    /\ UNCHANGED <<cin, input, args, cwd, pfds, locals, pipes, nread,
                   route, resolves, opened, created, forkFail, ub, aOut, bIn, bEof, chan, noImage>>

\* waitpid(pid2, nullptr, 0) returns
WaitPid2 ==
    /\ pc = "wait2"
    /\ pid2 \in Pids
    /\ procs[pid2].pc = "zombie"
    /\ procs' = Without(pid2)
    /\ pc' = "prompt"
    /\ UNCHANGED <<cin, input, args, cwd, pfds, locals, pipes, nread, hist>>

(* ------------------------------ children ------------------------------ *)
\* the descriptor table of the single-stage child when it calls execvp
WireSingle(rec) ==
    LET t1 == IF rec.inF # -1
              THEN Close(Dup2(rec.fds, rec.inF, STDIN_FILENO), rec.inF)
              ELSE rec.fds
    IN  IF rec.outF # -1
        THEN Close(Dup2(t1, rec.outF, STDOUT_FILENO), rec.outF)
        ELSE t1

\* WireA with the write end duplicated onto standard input
WireAOntoStdin(rec) == Close(Close(Dup2(rec.fds, rec.p1, STDIN_FILENO), rec.p0), rec.p1)

\* the descriptor table of child A when it calls execvp
WireA(rec) == Close(Close(Dup2(rec.fds, rec.p1, STDOUT_FILENO), rec.p0), rec.p1)

\* the descriptor table of child B when it calls execvp
WireB(rec) == Close(Close(Dup2(rec.fds, rec.p0, STDIN_FILENO), rec.p1), rec.p0)

\* a child whose execvp returned -1: the report, then exit(EXIT_FAILURE)
ExecFailed(rec) == [Exited(rec, "exit", EXIT_FAILURE) EXCEPT !.xfail = TRUE]

\* execvp(argv[0], argv.data()) in a child whose table is t.  With an empty
\* argument vector argv[0] is the null pointer: the call faults or fails.
\* A replaced image keeps the table and none of the shell's memory; the
\* program of a first stage writes n bytes and exits.
Execvp(p, t, argv) ==
    LET rec == [procs[p] EXCEPT !.fds = t, !.argv = argv] IN
    \/ /\ procs' = [procs EXCEPT ![p] = ExecFailed(rec)]
       /\ noImage' = noImage \cup ({p} \cap created)
    \/ /\ argv = <<>>
       /\ procs' = [procs EXCEPT ![p] = Exited(rec, "signal", 0)]
       /\ noImage' = noImage \cup ({p} \cap created)
    \/ /\ argv # <<>>
       /\ UNCHANGED noImage
       /\ \E n \in 0..MaxWrites :
            /\ rec.kind # "A" => n = 0
            /\ procs' = [procs EXCEPT ![p] =
                   [rec EXCEPT !.pc = "running", !.args = <<>>, !.inF = -1,
                               !.outF = -1, !.p0 = -1, !.p1 = -1, !.left = n]]

\* the pid == 0 branch of executeCommand
ExecSingle(p) ==
    /\ procs[p].kind = "single"
    /\ procs[p].pc = "forked"
    /\ Execvp(p, WireSingle(procs[p]), SingleArgv(procs[p].args))
    /\ UNCHANGED <<pc, cin, input, args, cwd, pfds, locals, pipes, nread,
                   route, resolves, opened, created, forkFail, waits, ub, aOut, bIn, bEof, chan>>

\* the pid1 == 0 branch of executePipedCommands
ExecA(p) ==
    /\ procs[p].kind = "A"
    /\ procs[p].pc = "forked"
    /\ Execvp(p, WireA(procs[p]), procs[p].args)
    /\ UNCHANGED <<pc, cin, input, args, cwd, pfds, locals, pipes, nread,
                   route, resolves, opened, created, forkFail, waits, ub, aOut, bIn, bEof, chan>>

\* the pid2 == 0 branch of executePipedCommands
ExecB(p) ==
    /\ procs[p].kind = "B"
    /\ procs[p].pc = "forked"
    /\ Execvp(p, WireB(procs[p]), procs[p].args)
    /\ UNCHANGED <<pc, cin, input, args, cwd, pfds, locals, pipes, nread,
                   route, resolves, opened, created, forkFail, waits, ub, aOut, bIn, bEof, chan>>

\* the program of a first stage writes its next byte to standard output.
\* On a pipe: the byte is queued when there is room, the writer is killed
\* by SIGPIPE when no read end is open, and the write blocks otherwise.
\* On the terminal or a file opened for writing the write succeeds.
ChildWrite(p) ==
    /\ procs[p].pc = "running"
    /\ procs[p].kind = "A"
    /\ procs[p].left > 0
    /\ LET f == procs[p].fds[STDOUT_FILENO]
           b == Len(IF p = pid1 THEN aOut ELSE <<>>) + 1
           wrote == [procs EXCEPT ![p].left = @ - 1]
       IN  \/ /\ f.kind = "pw"
              /\ HasReader(f.id)
              /\ Len(pipes[f.id]) < PipeCap
              /\ pipes' = [pipes EXCEPT ![f.id] = Append(@, b)]
              /\ procs' = wrote
              /\ aOut' = IF p = pid1 THEN Append(aOut, b) ELSE aOut
           \/ /\ f.kind = "pw"
              /\ ~HasReader(f.id)
              /\ procs' = [procs EXCEPT ![p] = Exited(@, "signal", 0)]
              /\ UNCHANGED <<pipes, aOut>>
           \/ /\ f.kind \in {"tty", "wfile"}
              /\ procs' = wrote
              /\ aOut' = IF p = pid1 THEN Append(aOut, b) ELSE aOut
              /\ UNCHANGED pipes
    /\ UNCHANGED <<pc, cin, input, args, cwd, pfds, locals, nread,
                   route, resolves, opened, created, forkFail, waits, ub, bIn, bEof, chan, noImage>>

\* the program of a second stage reads standard input.  On a pipe: the
\* oldest byte when one is queued, end-of-stream (after which the program
\* exits) when none is queued and no write end is open, blocked otherwise.
ChildRead(p) ==
    /\ procs[p].pc = "running"
    /\ procs[p].kind = "B"
    /\ LET f == procs[p].fds[STDIN_FILENO] IN
          \/ /\ f.kind = "pr"
             /\ pipes[f.id] # <<>>
             /\ pipes' = [pipes EXCEPT ![f.id] = Tail(@)]
             /\ bIn' = IF p = pid2 THEN Append(bIn, Head(pipes[f.id])) ELSE bIn
             /\ UNCHANGED <<procs, bEof>>
          \/ /\ f.kind = "pr"
             /\ pipes[f.id] = <<>>
             /\ ~HasWriter(f.id)
             /\ bEof' = (bEof \/ p = pid2)
             /\ procs' = [procs EXCEPT ![p] = Exited(@, "exit", 0)]
             /\ UNCHANGED <<pipes, bIn>>
    /\ UNCHANGED <<pc, cin, input, args, cwd, pfds, locals, nread,
                   route, resolves, opened, created, forkFail, waits, ub, aOut, chan, noImage>>

\* a program ends: a single-stage program, or a first stage that has
\* written all it had to write
ChildExit(p) ==
    /\ procs[p].pc = "running"
    /\ \/ procs[p].kind = "single"
       \/ procs[p].kind = "A" /\ procs[p].left = 0
    /\ procs' = [procs EXCEPT ![p] = Exited(@, "exit", 0)]
    /\ UNCHANGED <<pc, cin, input, args, cwd, pfds, locals, pipes, nread, hist>>

(* --------------------------- specification ---------------------------- *)
\* the parent's steps between two reads of a line
ParentStep ==
    \/ SkipEmpty \/ DispatchExit \/ DispatchCd \/ DispatchPipe
    \/ DispatchPlain \/ DispatchEmptyArgs
    \/ Resolve \/ ForkSingle \/ ParentClose \/ WaitAny
    \/ CreatePipe \/ Fork1 \/ Fork2 \/ PipeParentClose \/ WaitPid1 \/ WaitPid2

Next ==
    \/ ReadLine
    \/ ParentStep
    \/ \E p \in Pids : ExecSingle(p)
    \/ \E p \in Pids : ExecA(p)
    \/ \E p \in Pids : ExecB(p)
    \/ \E p \in Pids : ChildWrite(p)
    \/ \E p \in Pids : ChildRead(p)
    \/ \E p \in Pids : ChildExit(p)

Spec == Init /\ [][Next]_vars

\* a step of a child
ChildStep ==
    \/ \E p \in Pids : ExecSingle(p)
    \/ \E p \in Pids : ExecA(p)
    \/ \E p \in Pids : ExecB(p)
    \/ \E p \in Pids : ChildWrite(p)
    \/ \E p \in Pids : ChildRead(p)
    \/ \E p \in Pids : ChildExit(p)

\* the operating system keeps running the processes that can take a step
\* (the parent inside a command, the children and the programs they run);
\* nothing makes a line arrive
LiveSpec ==
    /\ Init
    /\ [][Next]_vars
    /\ WF_vars(ParentStep \/ ChildStep)

(* ------------------------ one command, any line ----------------------- *)
\* every token list of at most MaxToks tokens over these words
Words == {<<"a">>, TokLt, TokGt, TokBar}
TokLists == UNION {[1..n -> Words] : n \in 0..MaxToks}
LineInputs == Lines \cup {Join(w) : w \in TokLists}

\* main has read its first line, which is any of LineInputs
LineInit ==
    /\ pc = "dispatch"
    /\ cin = "good"
    /\ input \in LineInputs
    /\ args = <<>>
    /\ cwd = RootDir
    /\ pfds = Baseline
    /\ inFile = -1 /\ outFile = -1 /\ pid = NoPid
    /\ cmd1 = <<>> /\ cmd2 = <<>> /\ pipefd = <<-1, -1>>
    /\ pid1 = NoPid /\ pid2 = NoPid
    /\ procs = <<>>
    /\ pipes = [k \in PipeIds |-> <<>>]
    /\ nread = 1
    /\ route = {} /\ resolves = 0 /\ opened = <<>> /\ created = {}
    /\ forkFail = FALSE /\ waits = 0 /\ ub = FALSE
    /\ aOut = <<>> /\ bIn = <<>> /\ bEof = FALSE /\ chan = 0 /\ noImage = {}

\* the command of that line, up to the next prompt
LineSpec == LineInit /\ [][ParentStep \/ ChildStep]_vars

(* ------------------------------ claims -------------------------------- *)
IsPrefix(u, v) == Len(u) <= Len(v) /\ \A i \in 1..Len(u) : u[i] = v[i]

\* C1: each time the loop is back at the prompt, the parent holds open
\* exactly the descriptors it held before the loop started.
C1_DescriptorBaseline ==
    pc = "prompt" => OpenSet(pfds) = OpenSet(Baseline)

\* C2: at the prompt, every child the command created has been collected
\* by a wait of the parent.
C2_NoUnreapedChild ==
    pc = "prompt" => created \cap Pids = {}

\* C3: once both children of a pipeline exist, the launcher eventually
\* returns to the prompt with both children reaped, and by then child B's
\* program has read end-of-stream (unless B never got a program image).
C3_PipelineCompletes ==
    (pc = "pclose") ~>
        (/\ pc = "prompt"
         /\ created \cap Pids = {}
         /\ bEof \/ pid2 \in noImage)

C3_Witness ==
    /\ pc = "prompt"
    /\ route = {"piped"}
    /\ Cardinality(created) = 2
    /\ created \cap Pids = {}
    /\ bEof
    /\ aOut # <<>>

C5_OpenFailureAborts ==
    (\E i \in 1..Len(opened) : opened[i].fd < 0) =>
        (pc = "prompt" /\ created = {} /\ waits = 0)

C5_Witness ==
    /\ pc = "prompt"
    /\ route = {"single"}
    /\ Len(opened) = 2
    /\ opened[1].fd >= 0
    /\ opened[2].fd < 0

\* C6: when a fork of the command failed, no child the command created
\* exists once the launcher has returned, and no wait was issued.
C6_ForkFailureNoChild ==
    (pc = "prompt" /\ forkFail) => (created \cap Pids = {} /\ waits = 0)

\* C7: when executeCommand created a child, the parent is back at the
\* prompt only after that child has terminated.
C7_SingleWaitsOwnChild ==
    (pc = "prompt" /\ route = {"single"} /\ pid \in created) =>
        (pid \notin Pids \/ procs[pid].pc = "zombie")

\* C8: the first token is read only of a token list that is not empty, the
\* parent never crashes, and the loop ends only on a first token "exit".
C8_LoopSurvives ==
    /\ ~ub
    /\ pc # "crashed"
    /\ pc = "done" => (args # <<>> /\ args[1] = TokExit)

\* C9: a child whose execvp failed has exited with a non-zero status and
\* run nothing else, and the parent has waited for it before it is back at
\* the prompt.
C9_ExecFailureContained ==
    \A p \in Pids :
        procs[p].xfail =>
            /\ procs[p].pc = "zombie"
            /\ procs[p].how = "exit"
            /\ procs[p].status # 0
            /\ pc = "prompt" => p \notin created

C10NotBar(t) == t # TokBar

\* the path the claim names for the token list in args
C10Expected ==
    IF args[1] = TokExit \/ args[1] = TokCd THEN "builtin"
    ELSE IF \E i \in 1..Len(args) : args[i] = TokBar THEN "piped"
    ELSE "single"

\* C10: for a token list that is not empty exactly one path runs, chosen in
\* the order exit, cd, pipe, plain; on the two-stage path the resolver is
\* never called, nothing is opened, and every token but "|" is in a stage's
\* argument vector as it was typed.
C10_ExclusiveRouting ==
    (pc # "dispatch" /\ input # <<>> /\ args # <<>>) =>
        /\ route = {C10Expected}
        /\ pc = "done" <=> args[1] = TokExit
        /\ route = {"piped"} =>
            /\ resolves = 0
            /\ opened = <<>>
            /\ cmd1 \o cmd2 = SelectSeq(args, C10NotBar)
            /\ \A p \in Pids \cap created :
                  procs[p].pc # "forked" =>
                      procs[p].argv = (IF procs[p].kind = "A" THEN cmd1 ELSE cmd2)

C10_Witness ==
    /\ route = {"piped"}
    /\ \E i \in 1..Len(args) : args[i] = TokGt
    /\ \E p \in Pids \cap created :
          /\ procs[p].pc = "running"
          /\ \E i \in 1..Len(procs[p].argv) : procs[p].argv[i] = TokGt


\* C11: when pipe() fails the launcher returns to the prompt at once: no
\* child is created, no wait is issued and the parent's descriptor table is
\* as it was.
C11_PipeFailureAborts ==
    [][(pc = "pipe" /\ pc' # "pipe" /\ chan' = 0) =>
          /\ pc' = "prompt"
          /\ pfds' = pfds
          /\ procs' = procs
          /\ created' = {}
          /\ waits' = 0]_vars

C11_Witness ==
    /\ pc = "prompt"
    /\ route = {"piped"}
    /\ chan = 0
    /\ created = {}
    /\ waits = 0
    /\ OpenSet(pfds) = OpenSet(Baseline)

\* C12: the step of main for a line whose only token is "cd" leaves the
\* working directory as it was, creates no process, opens nothing and goes
\* back to the prompt.
C12_CdWithoutOperand ==
    [][(pc = "dispatch" /\ pc' # "dispatch" /\ parseCommand(input) = <<TokCd>>) =>
          /\ pc' = "prompt"
          /\ cwd' = cwd
          /\ procs' = procs
          /\ pfds' = pfds
          /\ created' = {}
          /\ opened' = <<>>
          /\ resolves' = 0]_vars

C12_Witness ==
    /\ pc = "prompt"
    /\ args = <<TokCd>>
    /\ route = {"builtin"}
    /\ cwd # RootDir

\* C13: the parent holds both ends of the command's pipe until both
\* children exist, and holds no copy of either end while it is in a wait.
C13_ParentRelinquishes ==
    /\ pc \in {"fork1", "fork2", "pclose"} =>
          (pfds[pipefd[1]] = PipeR(chan) /\ pfds[pipefd[2]] = PipeW(chan))
    /\ pc = "pclose" => Cardinality(created) = 2
    /\ pc \in {"wait1", "wait2"} =>
          \A n \in FdNums : pfds[n] \notin {PipeR(chan), PipeW(chan)}

C13_Witness ==
    /\ pc = "wait1"
    /\ chan > 0
    /\ pid1 \in Pids
    /\ procs[pid1].pc = "running"
    /\ pid2 \in Pids


\* the descriptor numbers the command in progress opened or created
CommandFds ==
    {opened[i].fd : i \in {j \in 1..Len(opened) : opened[j].fd >= 0}}
        \cup {n \in {pipefd[1], pipefd[2]} : n >= 0}

\* the pipeline part of C14: child A's image has the write end as standard
\* output only and no read end, child B's image has the read end as
\* standard input only and no write end
PipelineChildrenUseOrClose ==
    \A p \in Pids \cap created :
        (procs[p].pc = "running" /\ procs[p].kind # "single") =>
            /\ \A n \in FdNums :
                  procs[p].fds[n] = PipeW(chan) <=>
                      (procs[p].kind = "A" /\ n = STDOUT_FILENO)
            /\ \A n \in FdNums :
                  procs[p].fds[n] = PipeR(chan) <=>
                      (procs[p].kind = "B" /\ n = STDIN_FILENO)

\* C14: in a child whose image was replaced, every descriptor number the
\* command opened or created is closed (its copy, if any, sits on standard
\* input or standard output), and the ends of the pipe are wired as
\* PipelineChildrenUseOrClose says.
C14_UseOrClose ==
    /\ PipelineChildrenUseOrClose
    /\ \A p \in Pids \cap created :
          procs[p].pc = "running" =>
              \A n \in CommandFds : procs[p].fds[n] = NoFile


\* C15: a pipeline's token list is split at the first "|": stage 1 is every
\* token before it, stage 2 is every token after it, later "|" tokens
\* included.
C15FirstBar(a) == CHOOSE i \in 1..Len(a) : a[i] = TokBar /\ \A j \in 1..(i - 1) : a[j] # TokBar
C15_PipelineSplit ==
    (route = {"piped"} /\ pc # "dispatch") =>
        /\ cmd1 = SubSeq(args, 1, C15FirstBar(args) - 1)
        /\ cmd2 = SubSeq(args, C15FirstBar(args) + 1, Len(args))

\* C16: the argument vector of a single-stage command whose token list is
\* not empty is the tokens before the first "<" or ">" (all of them when
\* there is none), and the program name, its first element, is the first
\* token of the list.
C16Ops == {TokLt, TokGt}
C16Cut(a) == IF \E i \in 1..Len(a) : a[i] \in C16Ops
             THEN (CHOOSE i \in 1..Len(a) : a[i] \in C16Ops /\ \A j \in 1..(i - 1) : a[j] \notin C16Ops) - 1
             ELSE Len(a)
C16Built(p) == p \in created /\ procs[p].kind = "single" /\ procs[p].pc # "forked" /\ args # <<>>
C16_SingleArgv ==
    \A p \in Pids \cap created : C16Built(p) =>
        /\ procs[p].argv = SubSeq(args, 1, C16Cut(args))
        /\ procs[p].argv # <<>>
        /\ procs[p].argv[1] = args[1]

\* What the vector is in every case: the tokens before the first "<" or ">",
\* none of them an operator; its first element is the first token of the
\* list unless that token is an operator, and then the vector is empty.
C16_VectorPart ==
    \A p \in Pids \cap created : C16Built(p) =>
        /\ procs[p].argv = SubSeq(args, 1, C16Cut(args))
        /\ \A i \in 1..Len(procs[p].argv) : procs[p].argv[i] \notin C16Ops
        /\ args[1] \notin C16Ops => (procs[p].argv # <<>> /\ procs[p].argv[1] = args[1])
        /\ args[1] \in C16Ops => procs[p].argv = <<>>
\* C17: after a successful resolution the input (output) descriptor is the
\* one opened for the token after the last "<" (">") that has a following
\* token, or -1 when there is none; an operator in last position opens
\* nothing and fails nothing; the token list is the one that was parsed.
C17Uses(a, op) == {i \in 1..(Len(a) - 1) : a[i] = op}
C17Last(S) == CHOOSE i \in S : \A j \in S : j <= i
C17Fd(pos) == (CHOOSE e \in {opened[k] : k \in 1..Len(opened)} : e.pos = pos).fd
C17Resolved == route = {"single"} /\ resolves = 1 /\ \A k \in 1..Len(opened) : opened[k].fd >= 0
C17_ResolverResult ==
    C17Resolved =>
        /\ args = parseCommand(input)
        /\ {opened[k].pos : k \in 1..Len(opened)} = {i + 1 : i \in C17Uses(args, TokLt) \cup C17Uses(args, TokGt)}
        /\ (C17Uses(args, TokLt) \cup C17Uses(args, TokGt) = {}) => pc # "prompt" \/ created # {} \/ forkFail
        /\ pc = "fork" =>
             /\ IF C17Uses(args, TokLt) = {} THEN inFile = -1
                ELSE /\ inFile = C17Fd(C17Last(C17Uses(args, TokLt)) + 1)
                     /\ pfds[inFile] = RFile(C17Last(C17Uses(args, TokLt)) + 1)
             /\ IF C17Uses(args, TokGt) = {} THEN outFile = -1
                ELSE /\ outFile = C17Fd(C17Last(C17Uses(args, TokGt)) + 1)
                     /\ pfds[outFile] = WFile(C17Last(C17Uses(args, TokGt)) + 1)
C17_Witness ==
    /\ C17Resolved /\ pc = "fork" /\ Len(opened) = 2
    /\ opened[1].mode = "r" /\ opened[2].mode = "r"
    /\ inFile = opened[2].fd /\ inFile # opened[1].fd

\* C18: resolution stops at the first open that fails: the failed open is
\* the last one attempted, opens are attempted left to right, and the
\* command is abandoned without a child.
C18_HaltsAtFirstFailure ==
    /\ \A k \in 1..Len(opened) : opened[k].fd < 0 => k = Len(opened)
    /\ \A k \in 1..(Len(opened) - 1) : opened[k].pos < opened[k + 1].pos
    /\ (route = {"single"} /\ \E k \in 1..Len(opened) : opened[k].fd < 0) => (pc = "prompt" /\ created = {})
C18_Witness ==
    /\ pc = "prompt" /\ route = {"single"} /\ Len(opened) = 1 /\ opened[1].fd < 0
    /\ \E i \in opened[1].pos..(Len(args) - 1) : args[i] \in C16Ops


\* C19: on lines that have at least one token, the loop ends only on a first
\* token "exit", and then no process was created and no file opened; and a
\* read on the exhausted line source yields the empty line.
C19_LoopExit ==
    ~ub =>
        /\ pc = "done" => (args # <<>> /\ args[1] = TokExit /\ created = {} /\ opened = <<>>)
        /\ (pc = "dispatch" /\ cin = "fail") => input = <<>>

====
